---------------------------- MODULE Spec2Model ----------------------------
(***************************************************************************)
(* A model of the entity / level / pathfinding core of blanked.            *)
(*                                                                         *)
(*   core/entity.ts   Entity: construction, update, remove, moveTo,        *)
(*                    toJSON / fromJSON / FromJSON                         *)
(*   core/player.ts   Player: owner getter, update                         *)
(*   Group            owner accessor pair, add / delete / clear / has      *)
(*   core/commands.ts commands, execCommandString                          *)
(*   core/level.ts    Level: getEntityByID, toJSON / fromJSON / FromJSON   *)
(*   core/path.ts     PathNode, nodeDistance, trace,                       *)
(*                    getLeastExpensiveNode, findPath                      *)
(*   core/utils.ts    roundVector                                          *)
(*                                                                         *)
(* Objects live in a heap (a sequence of records, an object's reference is *)
(* its index); a level's Set<Entity> is the sequence of the references it  *)
(* holds, in insertion order.  Lengths are in half grid units, so that     *)
(* Math.round has something to round; angles are in units of pi / PiUnits. *)
(* A cost a + b * sqrt(2) is the pair <<a, b>> and is compared exactly.    *)
(***************************************************************************)
EXTENDS Integers, Sequences, FiniteSets, TLC

VARIABLES
    heap,       \* the Entity objects constructed so far (level L)
    entities,   \* L.entities: references, in insertion order
    gen,        \* how many ids randomHex has produced
    err,        \* the error the last operation raised, or NoError
    emitted,    \* the level notifications the last operation emitted
    rt,         \* the level built by the last Level.FromJSON(L.toJSON())
    ert,        \* the last entity round trip: source and result records
    path,       \* the running findPath call
    mv,         \* the last moveTo / update call
    tick,       \* the running Level.update() call
    sched,      \* the scheduler: timers, listeners, notifications seen
    cmd,        \* the last execCommandString call
    sel         \* the last filterEntities call

vars == <<heap, entities, gen, err, emitted, rt, ert, path, mv, tick, sched, cmd, sel>>

\* The variables of the machines other than the level machine
aux == <<tick, sched, cmd, sel>>

-----------------------------------------------------------------------------
(* Bounds of the model *)

\* Entity objects callers construct on level L; a round trip or a load onto
\* L may construct one more.
MaxEnts == 2

-----------------------------------------------------------------------------
(* Values *)

\* `undefined` where a string is expected (an absent id, name, parent, owner).
Undefined == "undefined"

\* `undefined` where an object reference is expected.
NoRef == 0

\* An absent array of a Partial<EntityJSON>.
NoArray == <<>>

NoError == "none"

Truthy(s) == s # Undefined /\ s # ""

Vec(x, y, z) == [x |-> x, y |-> y, z |-> z]

Zero == Vec(0, 0, 0)

VAdd(a, b) == Vec(a.x + b.x, a.y + b.y, a.z + b.z)

VSub(a, b) == Vec(a.x - b.x, a.y - b.y, a.z - b.z)

\* Vector3.asArray and Vector3.FromArray
AsArray(v) == <<v.x, v.y, v.z>>

FromArray(a) == Vec(a[1], a[2], a[3])

Abs(n) == IF n < 0 THEN -n ELSE n

Sign(n) == IF n > 0 THEN 1 ELSE IF n < 0 THEN -1 ELSE 0

\* Array.prototype.indexOf, 0-based, -1 when absent
IndexOf(seq, x) ==
    IF \E i \in 1..Len(seq) : seq[i] = x
    THEN (CHOOSE i \in 1..Len(seq) : seq[i] = x /\ \A j \in 1..(i - 1) : seq[j] # x) - 1
    ELSE -1

\* The ids callers supply, and the ids randomHex(32) produces: the n-th call
\* yields a string no earlier call and no caller has used.
SuppliedIds == {"a"}

GenIds == <<"r1", "r2", "r3", "r4", "r5", "r6", "r7", "r8">>

randomHex(n) == GenIds[n + 1]

-----------------------------------------------------------------------------
(* Entity, Player, Group *)

Types == {"Entity", "Player", "Group"}

\* component.ts: the keys of the components registry, the names of the
\* classes under the @component decorator: Entity and Group, not Player.
components == {"Entity", "Group"}

\* level.ts: export let loadingOrder = [Player, Entity], as type names
loadingOrder == <<"Player", "Entity">>

\* A level as the operators below see it.
LevelOf(h, es, g) == [heap |-> h, entities |-> es, gen |-> g]

EmptyLevel(g) == LevelOf(<<>>, <<>>, g)

\* The field initialisers of Entity (and of Group: entities = new Set()).
NewEntity(type, id) ==
    [type |-> type, id |-> id, name |-> "", parent |-> NoRef, owner |-> NoRef,
     position |-> Zero, rotation |-> Zero, velocity |-> Zero, members |-> <<>>]

\* new T(id, level): the id defaults to randomHex(32), a falsy id is replaced
\* by one, and the entity adds itself to level.entities.
Construct(ls, type, id) ==
    LET made == ~Truthy(id)
        eid  == IF made THEN randomHex(ls.gen) ELSE id
    IN  [heap     |-> Append(ls.heap, NewEntity(type, eid)),
         entities |-> Append(ls.entities, Len(ls.heap) + 1),
         gen      |-> IF made THEN ls.gen + 1 ELSE ls.gen]

\* get owner(): Entity returns _owner, Player returns this, Group its parent.
Owner(h, r) ==
    CASE h[r].type = "Player" -> r
      [] h[r].type = "Group"  -> h[r].parent
      [] OTHER                -> h[r].owner

\* `to.owner = v` inside assignWithDefaults: Entity's setter stores _owner,
\* Group's setter stores parent, Player has a getter only, so the assignment
\* raises a TypeError that assignWithDefaults swallows.
SetOwner(h, r, v) ==
    CASE h[r].type = "Player" -> h
      [] h[r].type = "Group"  -> [h EXCEPT ![r].parent = v]
      [] OTHER                -> [h EXCEPT ![r].owner = v]

IdOf(h, r) == IF r = NoRef THEN Undefined ELSE h[r].id

\* Entity.toJSON
EntityToJSON(h, r) ==
    [id         |-> h[r].id,
     name       |-> h[r].name,
     entityType |-> h[r].type,
     owner      |-> IdOf(h, Owner(h, r)),
     parent     |-> IdOf(h, h[r].parent),
     position   |-> AsArray(h[r].position),
     rotation   |-> AsArray(h[r].rotation),
     velocity   |-> AsArray(h[r].velocity)]

\* Level.getEntityByID: the first entity of the set with that id; NoRef
\* stands for the ReferenceError it throws when there is none.
getEntityByID(ls, id) ==
    IF \E i \in 1..Len(ls.entities) : ls.heap[ls.entities[i]].id = id
    THEN ls.entities[CHOOSE i \in 1..Len(ls.entities) :
            /\ ls.heap[ls.entities[i]].id = id
            /\ \A j \in 1..(i - 1) : ls.heap[ls.entities[j]].id # id]
    ELSE NoRef

\* The lookups of one fromJSON call: does any of them throw.
LookupFails(ls, data) ==
    \/ Truthy(data.parent) /\ getEntityByID(ls, data.parent) = NoRef
    \/ Truthy(data.owner) /\ getEntityByID(ls, data.owner) = NoRef

\* assignWithDefaults(this, {...}): every key gets from[key] ?? this[key];
\* entityType has a getter only (the TypeError is swallowed); parent is
\* assigned before owner.
AssignFields(ls, r, data) ==
    LET p  == IF Truthy(data.parent) THEN getEntityByID(ls, data.parent) ELSE NoRef
        o  == IF Truthy(data.owner) THEN getEntityByID(ls, data.owner) ELSE NoRef
        e  == ls.heap[r]
        h1 == [ls.heap EXCEPT ![r] =
                [e EXCEPT !.id = IF data.id = Undefined THEN @ ELSE data.id,
                          !.name = IF data.name = Undefined THEN @ ELSE data.name,
                          !.position = IF data.position = NoArray THEN @ ELSE FromArray(data.position),
                          !.rotation = IF data.rotation = NoArray THEN @ ELSE FromArray(data.rotation),
                          !.velocity = IF data.velocity = NoArray THEN @ ELSE FromArray(data.velocity),
                          !.parent = IF p = NoRef THEN @ ELSE p]]
    IN  IF o = NoRef THEN h1 ELSE SetOwner(h1, r, o)

\* entity.fromJSON(data): [ls, err]
EntityFromJSON(ls, r, data) ==
    IF LookupFails(ls, data)
    THEN [ls |-> ls, err |-> "ReferenceError"]
    ELSE [ls |-> [ls EXCEPT !.heap = AssignFields(ls, r, data)], err |-> NoError]

\* FromJSON that constructs the entity and does not load the record
EntityFromJSONStaticNoLoad(ls, type, data) ==
    [ls |-> Construct(ls, type, data.id), err |-> NoError]

\* T.FromJSON(data, level): new this(data.id, level), then fromJSON(data).
EntityFromJSONStatic(ls, type, data) ==
    LET made == Construct(ls, type, data.id)
    IN  EntityFromJSON(made, Len(made.heap), data)

\* Group.toJSON adds the members' ids to Entity.toJSON.
ToJSON(h, r) ==
    IF h[r].type = "Group"
    THEN [members |-> [i \in 1..Len(h[r].members) |-> h[h[r].members[i]].id]]
            @@ EntityToJSON(h, r)
    ELSE EntityToJSON(h, r)

-----------------------------------------------------------------------------
(* Level *)

\* Array.prototype.sort with a comparator that orders records by Key alone
\* and never answers 0: records with different keys come out in key order,
\* the order of records with equal keys is the implementation's choice.
\* keys[i] is the key of s[i].
SortOutcomes(s, keys) ==
    LET n     == Len(s)
        Perms == {p \in [1..n -> 1..n] : \A i, j \in 1..n : i # j => p[i] # p[j]}
    IN  {[i \in 1..n |-> s[p[i]]] : p \in
            {q \in Perms : \A i, j \in 1..n : i < j => keys[q[i]] <= keys[q[j]]}}

Reverse(s) == [i \in 1..Len(s) |-> s[Len(s) + 1 - i]]

\* The write key without the reversal of the list
WriteKeyUnreversed(rec) == IndexOf(loadingOrder, rec.entityType)

\* level.toJSON(): order = loadingOrder names reversed; sort by
\* order.indexOf(entityType) ascending.
WriteKey(rec) == IndexOf(Reverse(loadingOrder), rec.entityType)

\* level.fromJSON(): sort by priorities.indexOf(entityType) ascending.
ReadKey(rec) == IndexOf(loadingOrder, rec.entityType)

\* The entities arrays Level.toJSON() can return.
LevelToJSON(ls) ==
    LET recs == [i \in 1..Len(ls.entities) |-> ToJSON(ls.heap, ls.entities[i])]
    IN  SortOutcomes(recs, [i \in 1..Len(recs) |-> WriteKey(recs[i])])

\* The loop of Level.fromJSON over the sorted records, from record i on: a
\* record whose type is not in the priorities is skipped, any other goes to
\* FromJSON, whose error ends the load.  [ls, err]
RECURSIVE LoadRecords(_, _, _)
LoadRecords(ls, recs, i) ==
    IF i > Len(recs) THEN [ls |-> ls, err |-> NoError]
    ELSE IF ReadKey(recs[i]) = -1 THEN LoadRecords(ls, recs, i + 1)
    ELSE LET one == EntityFromJSONStatic(ls, recs[i].entityType, recs[i])
         IN  IF one.err # NoError THEN one
             ELSE LoadRecords(one.ls, recs, i + 1)

\* level.fromJSON(json): the outcomes, one per order the sort may produce.
LevelFromJSON(ls, json) ==
    {LoadRecords(ls, sorted, 1) :
        sorted \in SortOutcomes(json, [i \in 1..Len(json) |-> ReadKey(json[i])])}

IdsOf(ls) == {ls.heap[ls.entities[i]].id : i \in 1..Len(ls.entities)}

-----------------------------------------------------------------------------
(* Pathfinding *)

\* The size at which findPath gives up (openNodes.size < 1e4 &&
\* closedNodes.size < 1e4), scaled down to what can be enumerated.
MaxNodes == 12

\* Math.round on a coordinate given in half units: the nearest integer, a
\* half rounding towards +infinity.
Round(c) == 2 * ((c + 1) \div 2)

\* utils.ts roundVector
roundVector(v) == Vec(Round(v.x), Round(v.y), Round(v.z))

\* Costs a + b * sqrt(2), as <<a, b>>
CostZero == <<0, 0>>

CostAdd(c, d) == <<c[1] + d[1], c[2] + d[2]>>

\* a + b * sqrt(2) > 0
CostPositive(a, b) ==
    \/ a >= 0 /\ b >= 0 /\ (a > 0 \/ b > 0)
    \/ a > 0 /\ b < 0 /\ a * a > 2 * b * b
    \/ a < 0 /\ b > 0 /\ 2 * b * b > a * a

CostLess(c, d) == CostPositive(d[1] - c[1], d[2] - c[2])

\* new PathNode(position, parent): gCost = hCost = 0.  The parent is kept as
\* the parent's cell; a parent is always a node of the closed map.
PathNode(pos, hasParent, parent) ==
    [pos |-> roundVector(pos), hasParent |-> hasParent, parent |-> parent,
     g |-> CostZero, h |-> CostZero]

fCost(n) == CostAdd(n.g, n.h)

\* nodeDistance: sqrt(2) * min(dx, dz) + |dx - dz|, written with the source's
\* two conditionals
nodeDistance(a, b) ==
    LET dx == Abs(a.pos.x - b.pos.x)
        dz == Abs(a.pos.z - b.pos.z)
    IN  <<(IF dx > dz THEN 1 ELSE -1) * (dx - dz), IF dx > dz THEN dz ELSE dx>>

\* Map.has / Map.get / Map.delete / Map.set on a map keyed by PathNode.id,
\* kept as the sequence of its values in insertion order
MapHas(m, pos) == \E i \in 1..Len(m) : m[i].pos = pos

MapGet(m, pos) == m[CHOOSE i \in 1..Len(m) : m[i].pos = pos]

MapDelete(m, pos) == SelectSeq(m, LAMBDA n : n.pos # pos)

MapSet(m, n) ==
    IF MapHas(m, n.pos)
    THEN [i \in 1..Len(m) |-> IF m[i].pos = n.pos THEN n ELSE m[i]]
    ELSE Append(m, n)

\* The one element of a singleton; {F(x) : x \in {e}} evaluates e once.
Only(S) == CHOOSE x \in S : TRUE

\* getLeastExpensiveNode over a non-empty map, from the i-th value on
RECURSIVE LeastFrom(_, _, _)
LeastFrom(nodes, i, best) ==
    IF i > Len(nodes) THEN best
    ELSE LET node == nodes[i]
             take == \/ CostLess(fCost(node), fCost(best))
                     \/ fCost(best) = fCost(node) /\ CostLess(best.h, node.h)
         IN  Only({LeastFrom(nodes, i + 1, b) : b \in {IF take THEN node ELSE best}})

getLeastExpensiveNode(nodes) == LeastFrom(nodes, 1, nodes[1])

\* [0, 1, -1].flatMap(x => [0, 1, -1].map(y => new Vector3(x, 0, y))) without
\* the zero offset, in grid cells
Offsets ==
    <<Vec(0, 0, 1), Vec(0, 0, -1), Vec(1, 0, 0), Vec(1, 0, 1), Vec(1, 0, -1),
      Vec(-1, 0, 0), Vec(-1, 0, 1), Vec(-1, 0, -1)>>

Scale2(v) == Vec(2 * v.x, 2 * v.y, 2 * v.z)

\* openNodes.get(v.asArray().toString()) || new PathNode(node.position.add(v), node):
\* the map is looked up under the offset's own key, which is the id of the
\* cell at that offset from the origin.
Neighbor(open, node, v) ==
    IF MapHas(open, Scale2(v)) THEN MapGet(open, Scale2(v))
    ELSE PathNode(VAdd(node.pos, Scale2(v)), TRUE, node.pos)

Dist2(a, b) ==
    (a.x - b.x) * (a.x - b.x) + (a.y - b.y) * (a.y - b.y) + (a.z - b.z) * (a.z - b.z)

\* Vector3.Distance(entity.absolutePosition, pos) <= entity._pathRadius + 1,
\* for an obstacle [pos, radius]
Blocks(ob, pos) == Dist2(ob.pos, pos) <= (2 * (ob.radius + 1)) * (2 * (ob.radius + 1))

Intersects(obstacles, pos) == \E ob \in obstacles : Blocks(ob, pos)

\* A pass that does not look at the obstacles
RelaxNoObstacles(p, open, node, nb) ==
    IF MapHas(p.closed, nb.pos) THEN open
    ELSE LET cost == CostAdd(node.g, nodeDistance(node, nb))
         IN  IF CostLess(nb.g, cost) /\ MapHas(open, nb.pos) THEN open
             ELSE LET upd == [nb EXCEPT !.g = cost, !.h = nodeDistance(nb, p.endNode)]
                  IN  IF MapHas(open, nb.pos)
                      THEN (IF MapGet(open, nb.pos) = nb THEN MapSet(open, upd) ELSE open)
                      ELSE Append(open, upd)

\* One pass of the loop over the neighbours: the open map after it
Relax(p, open, node, nb) ==
    IF Intersects(p.obstacles, nb.pos) \/ MapHas(p.closed, nb.pos) THEN open
    ELSE LET cost == CostAdd(node.g, nodeDistance(node, nb))
         IN  IF CostLess(nb.g, cost) /\ MapHas(open, nb.pos) THEN open
             ELSE LET upd == [nb EXCEPT !.g = cost, !.h = nodeDistance(nb, p.endNode)]
                  IN  IF MapHas(open, nb.pos)
                      THEN (IF MapGet(open, nb.pos) = nb THEN MapSet(open, upd) ELSE open)
                      ELSE Append(open, upd)

\* for (const neighbor of neighbors), from the i-th neighbour on
RECURSIVE RelaxAll(_, _, _, _, _)
RelaxAll(p, open, node, nbs, i) ==
    IF i > Len(nbs) THEN open
    ELSE Only({RelaxAll(p, o, node, nbs, i + 1) : o \in {Relax(p, open, node, nbs[i])}})

\* The loop condition without the two size caps
LoopCondNoCap(p) ==
    /\ p.node.pos # p.endNode.pos
    /\ Len(p.open) > 0

\* The loop condition of findPath
LoopCond(p) ==
    /\ p.node.pos # p.endNode.pos
    /\ Len(p.open) > 0
    /\ Len(p.open) < MaxNodes
    /\ Len(p.closed) < MaxNodes

\* A trace that takes the end node before it looks at the start
TraceEndFirst(p, cur, defined, acc) == [err |-> NoError, route |-> <<cur.pos>>]

\* trace(startNode, endNode): follow the parents from cur back to the start;
\* reading .id of an undefined parent is a TypeError.  [err, route]
RECURSIVE Trace(_, _, _, _)
Trace(p, cur, defined, acc) ==
    IF ~defined THEN [err |-> "TypeError", route |-> <<>>]
    ELSE IF cur.pos = p.startNode.pos THEN [err |-> NoError, route |-> Reverse(acc)]
    ELSE IF cur.hasParent /\ MapHas(p.closed, cur.parent)
         THEN Only({Trace(p, n, TRUE, Append(acc, cur.pos))
                    : n \in {MapGet(p.closed, cur.parent)}})
         ELSE Trace(p, cur, FALSE, Append(acc, cur.pos))

\* findPath up to the first evaluation of the loop condition
PathStart(start, end, obstacles) ==
    LET startNode == PathNode(start, FALSE, Zero)
    IN  [pc |-> "loop", startNode |-> startNode, endNode |-> PathNode(end, FALSE, Zero),
         obstacles |-> obstacles, open |-> <<startNode>>, closed |-> <<>>,
         node |-> getLeastExpensiveNode(<<startNode>>), steps |-> 0,
         from |-> startNode.pos, cands |-> <<>>,
         err |-> NoError, route |-> <<>>]

\* The loop body, then the loop's update expression; from and cands keep the
\* cell of the expanded node and the cells of its `neighbors` array.
\* node = getLeastExpensiveNode(openNodes.values()), which throws
\* 'No nodes in list' on an empty map
Expand(p) ==
    LET node   == p.node
        open1  == MapDelete(p.open, node.pos)
        nbs    == [i \in 1..Len(Offsets) |-> Neighbor(open1, node, Offsets[i])]
        p1     == [p EXCEPT !.closed = MapSet(p.closed, node), !.from = node.pos,
                            !.cands = [i \in 1..Len(Offsets) |-> nbs[i].pos]]
    IN  Only({IF Len(open2) = 0
              THEN [p1 EXCEPT !.open = open2, !.pc = "done", !.err = "Error", !.steps = @ + 1]
              ELSE [p1 EXCEPT !.open = open2, !.node = getLeastExpensiveNode(open2),
                              !.steps = @ + 1]
              : open2 \in {RelaxAll(p1, open1, node, nbs, 1)}})

\* After the loop: return trace(startNode, endNode).map(node => node.position)
Return(p) ==
    LET t == Trace(p, p.endNode, TRUE, <<>>)
    IN  [p EXCEPT !.pc = "done", !.err = t.err, !.route = t.route]

PathStepOf(p) == IF LoopCond(p) THEN Expand(p) ELSE Return(p)

RECURSIVE RunPath(_)
RunPath(p) == IF p.pc = "done" THEN p ELSE Only({RunPath(q) : q \in {PathStepOf(p)}})

\* findPath(start, end, entities): the finished call
findPath(start, end, obstacles) == RunPath(PathStart(start, end, obstacles))

-----------------------------------------------------------------------------
(* The level machine: operations on one level L *)

L == LevelOf(heap, entities, gen)

\* level.entities.has(r)
InL(r) == \E i \in 1..Len(entities) : entities[i] = r

NoRT == [done |-> FALSE]

NoERT == [done |-> FALSE]

PathIdle == [pc |-> "idle"]

MvIdle == [op |-> "none"]

TickIdle == [pc |-> "idle"]

\* No code on the stack, no timer pending, no listener attached
SchedIdle ==
    [running |-> FALSE, made |-> {}, timers |-> <<>>, listeners |-> {}, early |-> {},
     created |-> <<>>, seen |-> <<>>]

\* The commands map is empty and nothing has been executed
CmdIdle == [done |-> FALSE, commands |-> <<>>]

SelIdle == [done |-> FALSE]

\* The Partial<EntityJSON> records callers pass to fromJSON / FromJSON.
KnownIds == SuppliedIds \cup {heap[r].id : r \in 1..Len(heap)}

Data(id, name, parent, owner, position) ==
    [id |-> id, name |-> name, entityType |-> Undefined, parent |-> parent,
     owner |-> owner, position |-> position,
     rotation |-> IF position = NoArray THEN NoArray ELSE <<0, 3, 0>>,
     velocity |-> IF position = NoArray THEN NoArray ELSE <<1, 0, 0>>]

\* Records that set an id, a parent or an owner.
DataInputs ==
    {Data(id, Undefined, Undefined, Undefined, NoArray) : id \in {Undefined} \cup SuppliedIds}
    \cup {Data(Undefined, Undefined, k, Undefined, NoArray) : k \in KnownIds}
    \cup {Data(Undefined, Undefined, Undefined, k, NoArray) : k \in KnownIds}

\* A record that sets the name and the three vectors.
FieldInputs == {Data(Undefined, "n", Undefined, Undefined, <<2, 0, 4>>)}

Install(ls) ==
    /\ heap' = ls.heap
    /\ entities' = ls.entities
    /\ gen' = ls.gen

\* new T(id, level)
NewOp(type, id) ==
    /\ Len(heap) < MaxEnts
    /\ Install(Construct(L, type, id))
    /\ err' = NoError
    /\ emitted' = <<>>
    /\ rt' = NoRT /\ ert' = NoERT
    /\ UNCHANGED <<path, mv, aux>>

\* T.FromJSON(data, level)
FromJSONStaticOp(type, data) ==
    /\ Len(heap) < MaxEnts
    /\ LET res == EntityFromJSONStatic(L, type, data)
       IN  Install(res.ls) /\ err' = res.err
    /\ emitted' = <<>>
    /\ rt' = NoRT /\ ert' = NoERT
    /\ UNCHANGED <<path, mv, aux>>

\* entity.fromJSON(data), on any entity constructed so far
FromJSONOp(r, data) ==
    /\ LET res == EntityFromJSON(L, r, data)
       IN  Install(res.ls) /\ err' = res.err
    /\ emitted' = <<>>
    /\ rt' = NoRT /\ ert' = NoERT
    /\ UNCHANGED <<path, mv, aux>>

\* A delete that removes nothing
SetDeleteNothing(s, x) == s

\* Set.prototype.delete
SetDelete(s, x) == SelectSeq(s, LAMBDA y : y # x)

\* entity.remove(): delete from the set, then emit entity_removed
RemoveOp(r) ==
    /\ entities' = SetDelete(entities, r)
    /\ emitted' = <<[type |-> "entity_removed", data |-> ToJSON(heap, r)]>>
    /\ err' = NoError
    /\ rt' = NoRT /\ ert' = NoERT
    /\ UNCHANGED <<heap, gen, path, mv, aux>>

\* Level.FromJSON(L.toJSON()): a new level, loaded from L's snapshot
LevelRoundTripOp ==
    /\ Len(entities) > 0
    /\ \E json \in LevelToJSON(L) : \E res \in LevelFromJSON(EmptyLevel(gen), json) :
          rt' = [done |-> TRUE, err |-> res.err, level |-> res.ls,
                 srcIds |-> IdsOf(L), srcSize |-> Len(entities), json |-> json]
    /\ err' = rt'.err
    /\ emitted' = <<>>
    /\ ert' = NoERT
    /\ UNCHANGED <<heap, entities, gen, path, mv, aux>>

\* L.fromJSON(L.toJSON()): a snapshot loaded onto the level that holds it
LevelLoadOntoOp ==
    /\ Len(entities) > 0
    /\ Len(heap) + Len(entities) <= MaxEnts + 1
    /\ \E json \in LevelToJSON(L) : \E res \in LevelFromJSON(L, json) :
          Install(res.ls) /\ err' = res.err
    /\ emitted' = <<>>
    /\ rt' = NoRT /\ ert' = NoERT
    /\ UNCHANGED <<path, mv, aux>>

\* T.FromJSON(E.toJSON(), L).toJSON() for an entity E of type T
EntityRoundTripOp(r) ==
    /\ Len(heap) < MaxEnts + 1
    /\ LET src == EntityToJSON(heap, r)
           res == EntityFromJSONStatic(L, heap[r].type, src)
       IN  /\ Install(res.ls)
           /\ err' = res.err
           /\ ert' = [done |-> TRUE, err |-> res.err, src |-> src, ref |-> r,
                      out |-> EntityToJSON(res.ls.heap, Len(res.ls.heap))]
    /\ emitted' = <<>>
    /\ rt' = NoRT
    /\ UNCHANGED <<path, mv, aux>>

\* The entities the operations act on: those constructed so far, until a round
\* trip or a load has constructed a copy beyond MaxEnts.
Held == IF Len(heap) > MaxEnts THEN {} ELSE 1..Len(heap)

Init ==
    /\ heap = <<>>
    /\ entities = <<>>
    /\ gen = 0
    /\ err = NoError
    /\ emitted = <<>>
    /\ rt = NoRT
    /\ ert = NoERT
    /\ path = PathIdle
    /\ mv = MvIdle
    /\ tick = TickIdle
    /\ sched = SchedIdle
    /\ cmd = CmdIdle
    /\ sel = SelIdle

Next ==
    \/ \E type \in Types, id \in {Undefined} \cup SuppliedIds : NewOp(type, id)
    \/ \E type \in Types, data \in DataInputs : FromJSONStaticOp(type, data)
    \/ \E r \in Held, data \in DataInputs : FromJSONOp(r, data)
    \/ \E r \in Held : RemoveOp(r)
    \/ \E r \in Held : EntityRoundTripOp(r)
    \/ LevelRoundTripOp
    \/ LevelLoadOntoOp

Spec == Init /\ [][Next]_vars

\* The entity operations alone, with records that set every field.
NextEntity ==
    \/ \E type \in Types, id \in {Undefined} \cup SuppliedIds : NewOp(type, id)
    \/ \E r \in Held, data \in DataInputs \cup FieldInputs : FromJSONOp(r, data)
    \/ \E r \in Held : RemoveOp(r)
    \/ \E r \in Held : EntityRoundTripOp(r)

EntitySpec == Init /\ [][NextEntity]_vars

-----------------------------------------------------------------------------
(* One findPath call after another, a loop iteration per step *)

\* 0.5 rounds to 1 and -0.5 to 0: (1, 0, -1) is in cell (1, 0, 0).
PathStarts == {Vec(0, 0, 0), Vec(1, 0, -1), Vec(8, 0, 6)}

PathGoals ==
    {Vec(0, 0, 0), Vec(1, 0, 0), Vec(4, 0, 2), Vec(10, 0, 0), Vec(4, 2, 0), Vec(6, 0, 6)}

Obstacle(pos, radius) == [pos |-> pos, radius |-> radius]

ObstacleSets ==
    {{}, {Obstacle(Vec(4, 0, 0), 3)}, {Obstacle(Vec(4, 0, 0), 0)},
     {Obstacle(Vec(10, 0, 0), 0)}, {Obstacle(Vec(4, 0, 0), 0), Obstacle(Vec(4, 0, 6), 1)}}

PathBeginOp(start, end, obstacles) ==
    /\ path.pc \in {"idle", "done"}
    /\ path' = PathStart(start, end, obstacles)
    /\ UNCHANGED <<heap, entities, gen, err, emitted, rt, ert, mv, aux>>

PathExpandOp ==
    /\ path.pc = "loop"
    /\ LoopCond(path)
    /\ path' = Expand(path)
    /\ UNCHANGED <<heap, entities, gen, err, emitted, rt, ert, mv, aux>>

PathReturnOp ==
    /\ path.pc = "loop"
    /\ ~LoopCond(path)
    /\ path' = Return(path)
    /\ UNCHANGED <<heap, entities, gen, err, emitted, rt, ert, mv, aux>>

PathNext ==
    \/ \E start \in PathStarts, end \in PathGoals, obstacles \in ObstacleSets :
          PathBeginOp(start, end, obstacles)
    \/ PathExpandOp
    \/ PathReturnOp

\* A call, once begun, runs its loop to the end: nothing else is scheduled
\* while it runs.
PathSpec == Init /\ [][PathNext]_vars /\ WF_vars(PathExpandOp) /\ WF_vars(PathReturnOp)

-----------------------------------------------------------------------------
(* update and moveTo *)

\* Math.PI in angle units
PiUnits == 8

\* The largest |rotation.y| and |coordinate| an update starts from
MaxTurn == 24

MaxCoord == 12

\* get absolutePosition(): the parent's absolute position plus position
RECURSIVE AbsPos(_, _)
AbsPos(h, r) ==
    IF h[r].parent # NoRef THEN VAdd(AbsPos(h, h[r].parent), h[r].position)
    ELSE h[r].position

\* Vector3.scaleInPlace(0.9), on coordinates that are multiples of 10
ScaleInPlace(v) == Vec((9 * v.x) \div 10, (9 * v.y) \div 10, (9 * v.z) \div 10)

\* update(): Player scales its velocity and does nothing else; every other
\* type adds sign(rotation.y) * 2 * pi to a rotation.y beyond pi in
\* magnitude, then adds the velocity to the position.
EntityUpdate(h, r) ==
    IF h[r].type = "Player"
    THEN [h EXCEPT ![r].velocity = ScaleInPlace(@)]
    ELSE LET y  == h[r].rotation.y
             y1 == IF Abs(y) > PiUnits THEN y + Sign(y) * 2 * PiUnits ELSE y
         IN  [h EXCEPT ![r].rotation.y = y1,
                       ![r].position = VAdd(@, h[r].velocity)]

\* Vector3.PitchYawRollToMoveBetweenPoints(a, b) for one step of a grid
\* route: yaw = atan2(dx, dz), pitch = atan2(sqrt(dx^2 + dz^2), dy), with
\* dy = 0 and dx, dz on an axis or a diagonal
PitchYawRollToMoveBetweenPoints(a, b) ==
    LET sx  == Sign(b.x - a.x)
        sz  == Sign(b.z - a.z)
        yaw == CASE sx = 0  /\ sz >= 0 -> 0
                 [] sx = 1  /\ sz = 1  -> PiUnits \div 4
                 [] sx = 1  /\ sz = 0  -> PiUnits \div 2
                 [] sx = 1  /\ sz = -1 -> 3 * (PiUnits \div 4)
                 [] sx = 0  /\ sz = -1 -> PiUnits
                 [] sx = -1 /\ sz = -1 -> -3 * (PiUnits \div 4)
                 [] sx = -1 /\ sz = 0  -> -(PiUnits \div 2)
                 [] sx = -1 /\ sz = 1  -> -(PiUnits \div 4)
    IN  Vec(IF sx = 0 /\ sz = 0 THEN 0 ELSE PiUnits \div 2, yaw, 0)

\* moveTo, after findPath has returned a non-empty route: emit
\* entity_path_start, set the position, then the rotation; path.at(-2) of a
\* one-point route is undefined, and reading it raises a TypeError after the
\* position has been set.
ApplyRoute(h, r, route) ==
    LET n    == Len(route)
        base == IF h[r].parent # NoRef THEN AbsPos(h, h[r].parent) ELSE Zero
        h1   == [h EXCEPT ![r].position = VSub(route[n], base)]
        out  == <<[type |-> "entity_path_start", id |-> h[r].id, route |-> route]>>
    IN  IF n < 2
        THEN [heap |-> h1, err |-> "TypeError", emitted |-> out]
        ELSE LET rot == PitchYawRollToMoveBetweenPoints(route[n - 1], route[n])
             IN  [heap    |-> [h1 EXCEPT ![r].rotation = [rot EXCEPT !.x = @ - PiUnits \div 2]],
                  err     |-> NoError,
                  emitted |-> out]

\* moveTo without the length check: an empty route is announced and the
\* entity is put on the goal cell
MoveToUnchecked(h, r, target, isRelative) ==
    LET start == AbsPos(h, r)
        goal  == VAdd(target, IF isRelative THEN start ELSE Zero)
    IN  Only({[start |-> start, goal |-> goal, found |-> p,
               res |-> IF p.err # NoError
                       THEN [heap |-> h, err |-> p.err, emitted |-> <<>>]
                       ELSE IF Len(p.route) = 0
                       THEN [heap |-> [h EXCEPT ![r].position = roundVector(goal)],
                             err |-> NoError,
                             emitted |-> <<[type |-> "entity_path_start", id |-> h[r].id,
                                            route |-> p.route]>>]
                       ELSE ApplyRoute(h, r, p.route)]
              : p \in {findPath(start, goal, {})}})

\* entity.moveTo(target, isRelative): findPath is called without entities;
\* an error it raises leaves moveTo, an empty route returns at once.
MoveTo(h, r, target, isRelative) ==
    LET start == AbsPos(h, r)
        goal  == VAdd(target, IF isRelative THEN start ELSE Zero)
    IN  Only({[start |-> start, goal |-> goal, found |-> p,
               res |-> IF p.err # NoError
                       THEN [heap |-> h, err |-> p.err, emitted |-> <<>>]
                       ELSE IF Len(p.route) = 0
                       THEN [heap |-> h, err |-> NoError, emitted |-> <<>>]
                       ELSE ApplyRoute(h, r, p.route)]
              : p \in {findPath(start, goal, {})}})

\* Records that set position, rotation and velocity
VecData(position, rotation, velocity) ==
    [Data(Undefined, Undefined, Undefined, Undefined, NoArray)
        EXCEPT !.position = position, !.rotation = rotation, !.velocity = velocity]

VecInputs ==
    {VecData(<<2, 0, 4>>, <<0, 9, 0>>, <<2, 0, 0>>),
     VecData(<<1, 0, -1>>, <<0, -20, 0>>, <<10, 0, 0>>),
     VecData(<<0, 0, 0>>, <<0, 8, 0>>, <<0, 0, 0>>)}

\* A record that makes the first entity the parent of a later one
ParentInputs(r) ==
    IF r > 1 /\ heap[r].id # heap[1].id
    THEN {Data(Undefined, Undefined, heap[1].id, Undefined, NoArray)}
    ELSE {}

MoveTypes == {"Entity", "Player"}

MoveTargets == {Vec(0, 0, 0), Vec(4, 0, 2)}

InRange(v) == Abs(v.x) <= MaxCoord /\ Abs(v.y) <= MaxCoord /\ Abs(v.z) <= MaxCoord

\* entity.update(); its 'update' event is emitted on the entity, not on the
\* level
UpdateOp(r) ==
    /\ Abs(heap[r].rotation.y) <= MaxTurn
    /\ InRange(heap[r].position)
    /\ heap[r].type = "Player" =>
          heap[r].velocity.x % 10 = 0 /\ heap[r].velocity.y % 10 = 0
              /\ heap[r].velocity.z % 10 = 0
    /\ heap' = EntityUpdate(heap, r)
    /\ mv' = [op |-> "update", ref |-> r, before |-> heap[r], after |-> heap'[r]]
    /\ err' = NoError
    /\ emitted' = <<>>
    /\ UNCHANGED <<entities, gen, rt, ert, path, aux>>

\* entity.moveTo(target, isRelative)
MoveToOp(r, target, isRelative) ==
    /\ InRange(AbsPos(heap, r))
    /\ UNCHANGED <<entities, gen, rt, ert, path, aux>>
    /\ \E m \in {MoveTo(heap, r, target, isRelative)} :
           /\ heap' = m.res.heap
           /\ err' = m.res.err
           /\ emitted' = m.res.emitted
           /\ mv' = [op |-> "moveTo", ref |-> r, start |-> m.start, goal |-> m.goal,
                     route |-> m.found.route, err |-> m.res.err,
                     emitted |-> m.res.emitted, id |-> heap[r].id,
                     absolutePosition |-> AbsPos(m.res.heap, r),
                     before |-> heap[r], after |-> m.res.heap[r],
                     others |-> \A q \in 1..Len(heap) : q # r => m.res.heap[q] = heap[q],
                     set |-> entities, setAfter |-> entities']

MoveNext ==
    \/ \E type \in MoveTypes : NewOp(type, Undefined)
    \/ \E r \in Held : \E data \in VecInputs \cup ParentInputs(r) : FromJSONOp(r, data)
    \/ \E r \in Held : UpdateOp(r)
    \/ \E r \in Held, target \in MoveTargets, isRelative \in BOOLEAN :
          MoveToOp(r, target, isRelative)

MoveSpec == Init /\ [][MoveNext]_vars

-----------------------------------------------------------------------------
(* Group: add, delete, clear; assignments to owner *)

\* `entity.owner = v` in strict code: Player has a getter only, the
\* assignment is a TypeError.  [heap, err]
OwnerAssign(h, r, v) ==
    IF h[r].type = "Player" THEN [heap |-> h, err |-> "TypeError"]
    ELSE [heap |-> SetOwner(h, r, v), err |-> NoError]

\* Set.prototype.add on a set kept in insertion order
SetAdd(s, x) == IF \E i \in 1..Len(s) : s[i] = x THEN s ELSE Append(s, x)

\* An add whose assignment to a Player's owner is dropped in silence
GroupAddSloppy(h, g, v) ==
    LET h1 == SetOwner(h, v, Owner(h, g))
        h2 == [h1 EXCEPT ![v].parent = g]
    IN  [heap |-> [h2 EXCEPT ![g].members = SetAdd(@, v)], err |-> NoError]

\* group.add(value): value.owner = this.owner; value.parent = this;
\* this.entities.add(value).  A throw of the first statement ends the call.
GroupAdd(h, g, v) ==
    LET set == OwnerAssign(h, v, Owner(h, g))
        h2  == [set.heap EXCEPT ![v].parent = g]
    IN  IF set.err # NoError THEN set
        ELSE [heap |-> [h2 EXCEPT ![g].members = SetAdd(@, v)], err |-> NoError]

\* group.delete(value): this.entities.delete(value)
GroupDelete(h, g, v) == [h EXCEPT ![g].members = SetDelete(@, v)]

\* group.clear(): this.entities.clear()
GroupClear(h, g) == [h EXCEPT ![g].members = <<>>]

\* group.has(value)
GroupHas(h, g, v) == \E i \in 1..Len(h[g].members) : h[g].members[i] = v

Groups == {r \in Held : heap[r].type = "Group"}

GroupAddOp(g, v) ==
    /\ \E res \in {GroupAdd(heap, g, v)} : heap' = res.heap /\ err' = res.err
    /\ emitted' = <<>>
    /\ rt' = NoRT /\ ert' = NoERT
    /\ UNCHANGED <<entities, gen, path, mv, aux>>

GroupDeleteOp(g, v) ==
    /\ heap' = GroupDelete(heap, g, v)
    /\ err' = NoError
    /\ emitted' = <<>>
    /\ rt' = NoRT /\ ert' = NoERT
    /\ UNCHANGED <<entities, gen, path, mv, aux>>

GroupClearOp(g) ==
    /\ heap' = GroupClear(heap, g)
    /\ err' = NoError
    /\ emitted' = <<>>
    /\ rt' = NoRT /\ ert' = NoERT
    /\ UNCHANGED <<entities, gen, path, mv, aux>>

\* entity.owner = value, value being an entity or undefined
OwnerAssignOp(r, v) ==
    /\ \E res \in {OwnerAssign(heap, r, v)} : heap' = res.heap /\ err' = res.err
    /\ emitted' = <<>>
    /\ rt' = NoRT /\ ert' = NoERT
    /\ UNCHANGED <<entities, gen, path, mv, aux>>

GroupNext ==
    \/ \E type \in Types : NewOp(type, Undefined)
    \/ \E r \in Held, data \in DataInputs : FromJSONOp(r, data)
    \/ \E r \in Held : RemoveOp(r)
    \/ \E g \in Groups, v \in Held : GroupAddOp(g, v)
    \/ \E g \in Groups, v \in Held : GroupDeleteOp(g, v)
    \/ \E g \in Groups : GroupClearOp(g)
    \/ \E r \in Held, v \in Held \cup {NoRef} : OwnerAssignOp(r, v)

GroupSpec == Init /\ [][GroupNext]_vars

\* Constructions, Group.add, entity.fromJSON and remove() alone
RefNext ==
    \/ \E type \in Types, id \in {Undefined} \cup SuppliedIds : NewOp(type, id)
    \/ \E r \in Held, data \in DataInputs : FromJSONOp(r, data)
    \/ \E r \in Held : RemoveOp(r)
    \/ \E g \in Groups, v \in Held : GroupAddOp(g, v)

RefSpec == Init /\ [][RefNext]_vars

\* Constructions, Group.add, Group.delete, Group.clear and remove() alone
MemberNext ==
    \/ \E type \in Types, id \in {Undefined} \cup SuppliedIds : NewOp(type, id)
    \/ \E r \in Held : RemoveOp(r)
    \/ \E g \in Groups, v \in Held : GroupAddOp(g, v)
    \/ \E g \in Groups, v \in Held : GroupDeleteOp(g, v)
    \/ \E g \in Groups : GroupClearOp(g)

MemberSpec == Init /\ [][MemberNext]_vars

-----------------------------------------------------------------------------
(* absolutePosition and absoluteRotation along the parent chain *)

\* Entities of one parent chain
MaxChain == 3

\* The getter that adds the parent's own vector, not its absolute one
AbsoluteParentOnly(h, r, field, depth) ==
    IF h[r].parent # NoRef
    THEN [err |-> NoError, value |-> VAdd(h[h[r].parent][field], h[r][field])]
    ELSE [err |-> NoError, value |-> h[r][field]]

\* get absolutePosition() / get absoluteRotation(): this.parent instanceof
\* Entity ? this.parent.absoluteX.add(this.X) : this.X.  The getter calls the
\* parent's getter; a call nested deeper than there are entities is on a
\* parent chain that returns to itself and never ends: the call stack runs
\* out, a RangeError.
RECURSIVE Absolute(_, _, _, _)
Absolute(h, r, field, depth) ==
    IF depth > Len(h) THEN [err |-> "RangeError", value |-> Zero]
    ELSE IF h[r].parent # NoRef
    THEN Only({IF up.err # NoError THEN up
               ELSE [err |-> NoError, value |-> VAdd(up.value, h[r][field])]
               : up \in {Absolute(h, h[r].parent, field, depth + 1)}})
    ELSE [err |-> NoError, value |-> h[r][field]]

\* Records that set position and rotation
ChainVecInputs ==
    {[VecData(<<2, 0, 4>>, <<0, 1, 0>>, NoArray) EXCEPT !.name = Undefined],
     [VecData(<<-1, 0, 1>>, <<0, 0, 2>>, NoArray) EXCEPT !.name = Undefined]}

\* Records that name any entity of the level as the parent
ChainParentInputs ==
    {Data(Undefined, Undefined, heap[k].id, Undefined, NoArray) : k \in 1..Len(heap)}

ChainTypes == {"Entity", "Group"}

\* new T(undefined, level), for the entities of a chain
ChainNewOp(type) ==
    /\ mv = MvIdle
    /\ Len(heap) < MaxChain
    /\ Install(Construct(L, type, Undefined))
    /\ err' = NoError
    /\ emitted' = <<>>
    /\ UNCHANGED <<rt, ert, path, mv, aux>>

\* entity.fromJSON(data) between two reads
ChainFromJSONOp(r, data) == mv = MvIdle /\ FromJSONOp(r, data)

\* A read of entity.absolutePosition and of entity.absoluteRotation
AbsoluteOp(r) ==
    /\ mv = MvIdle
    /\ mv' = [op |-> "absolute", ref |-> r,
              position |-> Absolute(heap, r, "position", 1),
              rotation |-> Absolute(heap, r, "rotation", 1)]
    /\ UNCHANGED <<heap, entities, gen, err, emitted, rt, ert, path, aux>>

\* The reader goes on
AbsoluteReturnOp ==
    /\ mv.op = "absolute"
    /\ mv' = MvIdle
    /\ UNCHANGED <<heap, entities, gen, err, emitted, rt, ert, path, aux>>

ChainNext ==
    \/ \E type \in ChainTypes : ChainNewOp(type)
    \/ \E r \in 1..Len(heap) : \E data \in ChainVecInputs \cup ChainParentInputs :
          ChainFromJSONOp(r, data)
    \/ \E r \in 1..Len(heap) : AbsoluteOp(r)
    \/ AbsoluteReturnOp

ChainSpec == Init /\ [][ChainNext]_vars

-----------------------------------------------------------------------------
(* Level.update(): a tick, an entity per step *)

\* Can update() run on entity r inside the explored range
Updatable(r) ==
    /\ Abs(heap[r].rotation.y) <= MaxTurn
    /\ InRange(heap[r].position)
    /\ heap[r].type = "Player" =>
          heap[r].velocity.x % 10 = 0 /\ heap[r].velocity.y % 10 = 0
              /\ heap[r].velocity.z % 10 = 0

\* for (const entity of this.entities): the iterator of a Set yields, in
\* insertion order, the entries that are in the set when it reaches them, so
\* an entry deleted before its turn is not visited and an entry added during
\* the loop is.  pending holds the entries the iterator has yet to reach.
\* The setInterval callback calls level.update(): sampleFrame, emit('update'),
\* then the loop.  The log starts with the level's notification.
TickBeginOp ==
    /\ tick.pc # "running"
    /\ \A i \in 1..Len(entities) : Updatable(entities[i])
    /\ tick' = [pc |-> "running", start |-> entities, pending |-> entities,
                removed |-> {}, log |-> <<[ev |-> "level.update", on |-> NoRef]>>]
    /\ emitted' = <<[type |-> "update"]>>
    /\ err' = NoError
    /\ rt' = NoRT /\ ert' = NoERT
    /\ UNCHANGED <<heap, entities, gen, path, mv, sched, cmd, sel>>

\* A loop that ends after its first entity
TickDoneEarly == tick.pc = "running" /\ Len(tick.log) > 1

\* The loop has reached the end of the set
TickDone == tick.pc = "running" /\ Len(tick.pending) = 0

\* entity.update() on the next entity of the iteration
TickStepOp ==
    /\ tick.pc = "running"
    /\ ~TickDone
    /\ Len(tick.pending) > 0
    /\ heap' = EntityUpdate(heap, Head(tick.pending))
    /\ tick' = [tick EXCEPT !.pending = Tail(@), !.log = Append(@, [ev |-> "entity.update", on |-> Head(tick.pending)])]
    /\ UNCHANGED <<entities, gen, err, emitted, rt, ert, path, mv, sched, cmd, sel>>

\* The loop ends and update() returns
TickEndOp ==
    /\ TickDone
    /\ tick' = [tick EXCEPT !.pc = "done"]
    /\ UNCHANGED <<heap, entities, gen, err, emitted, rt, ert, path, mv, sched, cmd, sel>>

\* A listener of an update notification calls remove() on an entity
TickRemoveOp(r) ==
    /\ tick.pc = "running"
    /\ InL(r)
    /\ entities' = SetDelete(entities, r)
    /\ emitted' = <<[type |-> "entity_removed", data |-> ToJSON(heap, r)]>>
    /\ tick' = [tick EXCEPT !.pending = SetDelete(@, r), !.removed = @ \cup {r}]
    /\ UNCHANGED <<heap, gen, err, rt, ert, path, mv, sched, cmd, sel>>

\* A listener of an update notification constructs an entity
TickAddOp(type) ==
    /\ tick.pc = "running"
    /\ Len(heap) < MaxEnts + 1
    /\ Install(Construct(L, type, Undefined))
    /\ tick' = [tick EXCEPT !.pending = Append(@, Len(heap) + 1)]
    /\ UNCHANGED <<err, emitted, rt, ert, path, mv, sched, cmd, sel>>

TickNext ==
    \/ \E type \in Types : tick.pc # "running" /\ NewOp(type, Undefined)
    \/ \E r \in Held, data \in VecInputs : tick.pc # "running" /\ FromJSONOp(r, data)
    \/ \E r \in Held : tick.pc # "running" /\ InL(r) /\ RemoveOp(r)
    \/ TickBeginOp
    \/ TickStepOp
    \/ TickEndOp
    \/ \E r \in 1..Len(heap) : TickRemoveOp(r)
    \/ \E type \in MoveTypes : TickAddOp(type)

\* update() is synchronous: once called it runs its loop to the end.
TickSpec == Init /\ [][TickNext]_vars /\ WF_vars(TickStepOp) /\ WF_vars(TickEndOp)

-----------------------------------------------------------------------------
(* The scheduler: synchronous runs of code, and the timers between them *)

\* this.emit('created'): the listeners attached by now are called
EmitCreated(sc, r) ==
    [sc EXCEPT !.created = Append(@, r),
               !.seen = IF r \in sc.listeners THEN Append(@, r) ELSE @]

\* The constructor emits 'created' itself
EmitAtOnce(sc, r) == EmitCreated(sc, r)

\* setTimeout(() => this.emit('created')): the callback joins the timer
\* queue, which runs between synchronous runs, in order
SetTimeout(sc, r) == [sc EXCEPT !.timers = Append(@, r)]

\* A script or a callback starts to run
SchedRunOp ==
    /\ ~sched.running
    /\ sched' = [sched EXCEPT !.running = TRUE, !.made = {}]
    /\ UNCHANGED <<heap, entities, gen, err, emitted, rt, ert, path, mv, tick, cmd, sel>>

\* The running code constructs an entity
SchedConstructOp(type, id) ==
    /\ sched.running
    /\ Len(heap) < MaxEnts + 1
    /\ Install(Construct(L, type, id))
    /\ sched' = [SetTimeout(sched, Len(heap) + 1) EXCEPT !.made = @ \cup {Len(heap) + 1}]
    /\ UNCHANGED <<err, emitted, rt, ert, path, mv, tick, cmd, sel>>

\* The running code attaches a 'created' listener: entity.on('created', ...)
SchedAttachOp(r) ==
    /\ sched.running
    /\ r \notin sched.listeners
    /\ sched' = [sched EXCEPT !.listeners = @ \cup {r},
                              !.early = @ \cup ({r} \cap sched.made)]
    /\ UNCHANGED <<heap, entities, gen, err, emitted, rt, ert, path, mv, tick, cmd, sel>>

\* The running code returns to the event loop
SchedReturnOp ==
    /\ sched.running
    /\ sched' = [sched EXCEPT !.running = FALSE]
    /\ UNCHANGED <<heap, entities, gen, err, emitted, rt, ert, path, mv, tick, cmd, sel>>

\* The event loop runs the oldest timer: this.emit('created'), which calls
\* the listeners attached by then
SchedTimerOp ==
    /\ ~sched.running
    /\ Len(sched.timers) > 0
    /\ sched' = [EmitCreated(sched, Head(sched.timers)) EXCEPT !.timers = Tail(@)]
    /\ UNCHANGED <<heap, entities, gen, err, emitted, rt, ert, path, mv, tick, cmd, sel>>

SchedNext ==
    \/ SchedRunOp
    \/ \E type \in Types : SchedConstructOp(type, Undefined)
    \/ \E r \in 1..Len(heap) : SchedAttachOp(r)
    \/ SchedReturnOp
    \/ SchedTimerOp

\* Running code returns, and the event loop reaches every timer: a timer is
\* not starved by the runs that start while it waits.
SchedSpec ==
    Init /\ [][SchedNext]_vars /\ WF_vars(SchedReturnOp) /\ SF_vars(SchedTimerOp)

-----------------------------------------------------------------------------
(* commands.ts: the commands map and execCommandString *)

\* A string is the sequence of its characters, at most MaxLen of them; the
\* commands map holds at most MaxCmds commands.
MaxLen == 4

MaxCmds == 2

Chars == {"k", "x", " "}

Strings == UNION {[1..n -> Chars] : n \in 0..MaxLen}

\* executor.permissionLevel when the executor has none
NoLevel == -1

PermissionDenied == "You do not have permission to execute that command"

NotImplemented == "Command is not implemented"

DoesNotExist == "Command does not exist"

\* A test that every name passes
StartsWithAnything(string, name) == TRUE

\* String.prototype.startsWith
startsWith(string, name) ==
    /\ Len(name) <= Len(string)
    /\ \A i \in 1..Len(name) : string[i] = name[i]

\* String.prototype.slice(n)
Slice(string, n) == [i \in 1..(Len(string) - n) |-> string[i + n]]

\* split(/\s/).filter(a => a): the maximal runs of non-blank characters,
\* from position i on, cur being the run read so far
RECURSIVE SplitFrom(_, _, _, _)
SplitFrom(string, i, cur, acc) ==
    IF i > Len(string) THEN (IF cur = <<>> THEN acc ELSE Append(acc, cur))
    ELSE IF string[i] = " "
         THEN SplitFrom(string, i + 1, <<>>, IF cur = <<>> THEN acc ELSE Append(acc, cur))
         ELSE SplitFrom(string, i + 1, Append(cur, string[i]), acc)

\* The pieces of the whole input, the command's name among them
ArgsOfWhole(string, name) == SplitFrom(string, 1, <<>>, <<>>)

\* string.slice(name.length).split(/\s/).filter(a => a)
Args(string, name) == SplitFrom(Slice(string, Len(name)), 1, <<>>, <<>>)

\* Map.prototype.set: a new key is appended, an old key keeps its place
CommandsSet(commands, c) ==
    IF \E i \in 1..Len(commands) : commands[i].name = c.name
    THEN [i \in 1..Len(commands) |-> IF commands[i].name = c.name THEN c ELSE commands[i]]
    ELSE Append(commands, c)

\* context.executor.permissionLevel ??= 0
Level0(level) == IF level = NoLevel THEN 0 ELSE level

\* The loop of execCommandString from the i-th command on:
\* [result, invoked]; a handler's return value is the name it was called by
RECURSIVE ExecFrom(_, _, _, _, _)
ExecFrom(commands, i, string, level, ignoreOp) ==
    IF i > Len(commands) THEN [result |-> DoesNotExist, invoked |-> <<>>]
    ELSE IF ~startsWith(string, commands[i].name)
         THEN ExecFrom(commands, i + 1, string, level, ignoreOp)
    ELSE IF level < commands[i].permissionLevel /\ ~ignoreOp
         THEN [result |-> PermissionDenied, invoked |-> <<>>]
    ELSE IF ~commands[i].hasExec
         THEN [result |-> NotImplemented, invoked |-> <<>>]
    ELSE [result  |-> commands[i].name,
          invoked |-> <<[name |-> commands[i].name, args |-> Args(string, commands[i].name)]>>]

\* execCommandString without the permission test
ExecUnguarded(commands, string, level, ignoreOp) ==
    ExecFrom(commands, 1, string, Level0(level), TRUE)

\* execCommandString(string, context, ignoreOp); ignoreOp is FALSE when absent
execCommandString(commands, string, level, ignoreOp) ==
    ExecFrom(commands, 1, string, Level0(level), ignoreOp)

CommandNames == {<<"k">>, <<"k", " ">>, <<"x">>}

Levels == {0, 2}

\* commands.set(name, command)
RegisterOp(name, level, hasExec) ==
    /\ Len(cmd.commands) < MaxCmds \/ \E i \in 1..Len(cmd.commands) : cmd.commands[i].name = name
    /\ hasExec \/ name = <<"x">>
    /\ cmd' = [done |-> FALSE,
               commands |-> CommandsSet(cmd.commands,
                               [name |-> name, permissionLevel |-> level, hasExec |-> hasExec])]
    /\ UNCHANGED <<heap, entities, gen, err, emitted, rt, ert, path, mv, tick, sched, sel>>

\* execCommandString(string, {executor}, ignoreOp); the call is synchronous
\* and its result is kept until the caller has taken it
ExecOp(string, level, ignoreOp) ==
    /\ ~cmd.done
    /\ \E res \in {execCommandString(cmd.commands, string, level, ignoreOp)} :
          cmd' = [done |-> TRUE, commands |-> cmd.commands, string |-> string,
                  level |-> level, levelAfter |-> Level0(level), ignoreOp |-> ignoreOp,
                  result |-> res.result, invoked |-> res.invoked, err |-> NoError]
    /\ UNCHANGED <<heap, entities, gen, err, emitted, rt, ert, path, mv, tick, sched, sel>>

\* The caller takes the result and goes on
ExecReturnOp ==
    /\ cmd.done
    /\ cmd' = [done |-> FALSE, commands |-> cmd.commands]
    /\ UNCHANGED <<heap, entities, gen, err, emitted, rt, ert, path, mv, tick, sched, sel>>

CmdNext ==
    \/ \E name \in CommandNames, level \in Levels, hasExec \in BOOLEAN :
          RegisterOp(name, level, hasExec)
    \/ \E string \in Strings, level \in {NoLevel, 0, 2}, ignoreOp \in BOOLEAN :
          ExecOp(string, level, ignoreOp)
    \/ ExecReturnOp

CmdSpec == Init /\ [][CmdNext]_vars

-----------------------------------------------------------------------------
(* filterEntities *)

\* The characters of the ids, names and type names of the model
Text(str) ==
    CASE str = ""        -> <<>>
      [] str = "a"       -> <<"a">>
      [] str = "n"       -> <<"n">>
      [] str = "Entity"  -> <<"E", "n", "t", "i", "t", "y">>
      [] str = "Player"  -> <<"P", "l", "a", "y", "e", "r">>
      [] str = "Group"   -> <<"G", "r", "o", "u", "p">>
      [] str = "EventEmitter"
            -> <<"E", "v", "e", "n", "t", "E", "m", "i", "t", "t", "e", "r">>
      [] OTHER           -> <<"r", str>>

\* String.prototype.toLowerCase
LowerChar(c) ==
    CASE c = "E" -> "e" [] c = "P" -> "p" [] c = "G" -> "g" [] OTHER -> c

toLowerCase(string) == [i \in 1..Len(string) |-> LowerChar(string[i])]

\* String.prototype.includes
includes(string, part) ==
    \E k \in 0..(Len(string) - Len(part)) :
        \A i \in 1..Len(part) : string[k + i] = part[i]

\* get entityTypes(): resolveConstructors(this), the constructor names from
\* the object up its prototype chain, Object excluded
entityTypes(type) ==
    IF type = "Entity" THEN <<"Entity", "Entity", "EventEmitter">>
    ELSE <<type, type, "Entity", "EventEmitter">>

YesNo(b) == IF b THEN "yes" ELSE "no"

\* The switch with a '.' case that looks at the entity's own type name only
SelectsOwnType(h, r, selector) ==
    LET lead == IF Len(selector) = 0 THEN "" ELSE selector[1]
        rest == Slice(selector, 1)
    IN  CASE lead = "@" -> YesNo(Text(h[r].name) = rest)
          [] lead = "#" -> YesNo(Text(h[r].id) = rest)
          [] lead = "." ->
                YesNo(includes(toLowerCase(Text(h[r].type)), toLowerCase(rest)))
          [] OTHER -> "throw"

\* One turn of the switch on selector[0]: "throw", or is the entity selected
Selects(h, r, selector) ==
    LET lead == IF Len(selector) = 0 THEN "" ELSE selector[1]
        rest == Slice(selector, 1)
    IN  CASE lead = "@" -> YesNo(Text(h[r].name) = rest)
          [] lead = "#" -> YesNo(Text(h[r].id) = rest)
          [] lead = "." ->
                YesNo(\E i \in 1..Len(entityTypes(h[r].type)) :
                    includes(toLowerCase(Text(entityTypes(h[r].type)[i])), toLowerCase(rest)))
          [] OTHER -> "throw"

\* The loop of filterEntities over the entities, from the i-th on
RECURSIVE FilterFrom(_, _, _, _, _)
FilterFrom(h, es, selector, i, selected) ==
    IF i > Len(es) THEN [err |-> NoError, selected |-> selected]
    ELSE Only({IF hit = "throw" THEN [err |-> "Error", selected |-> <<>>]
               ELSE FilterFrom(h, es, selector, i + 1,
                               IF hit = "yes" THEN Append(selected, es[i]) ELSE selected)
               : hit \in {Selects(h, es[i], selector)}})

\* filterEntities(entities, selector), for a selector that is a string
filterEntities(h, es, selector) ==
    IF selector = <<"*">> THEN [err |-> NoError, selected |-> es]
    ELSE FilterFrom(h, es, selector, 1, <<>>)

Selectors ==
    {<<"*">>, <<"@", "n">>, <<"@">>, <<"#", "a">>, <<"#", "r", "r1">>, <<".", "P", "l">>,
     <<".", "e", "n", "t">>, <<".", "m", "i", "t">>, <<".">>, <<"x">>, <<"*", "a">>,
     <<"n", "@">>, <<>>}

\* level.selectEntities(selector): filterEntities(this.entities, selector)
SelectOp(selector) ==
    /\ \E res \in {filterEntities(heap, entities, selector)} :
          sel' = [done |-> TRUE, selector |-> selector, over |-> entities,
                  heap |-> heap, err |-> res.err, selected |-> res.selected]
    /\ UNCHANGED <<heap, entities, gen, err, emitted, rt, ert, path, mv, tick, sched, cmd>>

SelNext ==
    \/ \E type \in Types, id \in {Undefined} \cup SuppliedIds : NewOp(type, id)
    \/ \E r \in Held, data \in FieldInputs : FromJSONOp(r, data)
    \/ \E r \in Held : InL(r) /\ RemoveOp(r)
    \/ \E selector \in Selectors : SelectOp(selector)

SelSpec == Init /\ [][SelNext]_vars

-----------------------------------------------------------------------------
(* Claims about the level machine *)

\* Every parent and owner of an entity of L is an entity of L.
RefsInL ==
    \A i \in 1..Len(entities) :
        LET r == entities[i]
        IN  /\ heap[r].parent # NoRef => InL(heap[r].parent)
            /\ Owner(heap, r) # NoRef => InL(Owner(heap, r))

\* Every entity of L has a type of the type-priority list.
TypesLoadable ==
    \A i \in 1..Len(entities) : IndexOf(loadingOrder, heap[entities[i]].type) # -1

IdsUnique(ls) ==
    \A i, j \in 1..Len(ls.entities) :
        i # j => ls.heap[ls.entities[i]].id # ls.heap[ls.entities[j]].id

\* C1: Level.FromJSON(L.toJSON()) has as many entities as L and the same set
\* of ids, for a level L whose entities all have types of the priority list,
\* unique ids, and parents and owners inside L.
C1_LevelRoundTrip ==
    (rt.done /\ TypesLoadable /\ RefsInL /\ IdsUnique(L))
        => /\ Len(rt.level.entities) = Len(entities)
           /\ IdsOf(rt.level) = IdsOf(L)

\* C2: loading the snapshot of a level whose parent / owner references all
\* point at entities of that level, no parent / owner lookup fails.
C2_NoLookupFails ==
    (rt.done /\ RefsInL /\ IdsUnique(L)) => rt.err = NoError

\* C7: no two distinct entities of a level's entity set have the same id.
C7_IdsUnique == IdsUnique(L)

OwnRefsInL(r) ==
    /\ heap[r].parent # NoRef => InL(heap[r].parent)
    /\ Owner(heap, r) # NoRef => InL(Owner(heap, r))

C12_Remove ==
    [][\A r \in 1..Len(heap) :
          RemoveOp(r) =>
             /\ \A i \in 1..Len(entities') : entities'[i] # r
             /\ \A q \in 1..Len(heap) :
                   (q # r /\ InL(q)) => \E i \in 1..Len(entities') : entities'[i] = q
             /\ Len(entities') = Len(entities) - (IF InL(r) THEN 1 ELSE 0)
             /\ Len(emitted') = 1
             /\ emitted'[1].type = "entity_removed"
             /\ emitted'[1].data = ToJSON(heap, r)
             /\ emitted'[1].data = ToJSON(heap', r)]_vars

\* A removal of an entity with a parent, from a level that keeps another entity.
C12_Witness ==
    /\ Len(emitted) = 1
    /\ emitted[1].type = "entity_removed"
    /\ emitted[1].data.parent # Undefined
    /\ Len(entities) = 1
    /\ Len(heap) = 2
    /\ \A i \in 1..Len(entities) : heap[entities[i]].id # emitted[1].data.id

\* The entities of L whose type the loader knows.
KnownRefs == {r \in 1..Len(heap) : InL(r) /\ IndexOf(loadingOrder, heap[r].type) # -1}

\* C13: Level.fromJSON skips every record of an unknown type without
\* raising and reconstructs every other record of the snapshot.
C13_UnknownSkipped ==
    (/\ rt.done /\ RefsInL /\ IdsUnique(L)
     /\ \E i \in 1..Len(entities) : IndexOf(loadingOrder, heap[entities[i]].type) = -1)
    => /\ rt.err = NoError
       /\ IdsOf(rt.level) = {heap[r].id : r \in KnownRefs}
       /\ Len(rt.level.entities) = Cardinality(KnownRefs)

\* No entity of L refers to another one.
NoLinks ==
    \A i \in 1..Len(entities) :
        /\ heap[entities[i]].parent = NoRef
        /\ Owner(heap, entities[i]) \in {NoRef, entities[i]}

\* C14: Level.fromJSON reconstructs a record exactly when its entityType is
\* a key of the component registry, and skips it exactly when it is not.
C14_RegistryDispatch ==
    (rt.done /\ NoLinks /\ IdsUnique(L))
    => /\ rt.err = NoError
       /\ IdsOf(rt.level) = {heap[entities[i]].id :
                                i \in {j \in 1..Len(entities) : heap[entities[j]].type \in components}}

\* C15: in the entities array of Level.toJSON(), of two records with types
\* of the priority list the one whose type stands later in the list comes
\* first, and the array holds exactly one record per entity of the level.
C15_SerializationOrder ==
    rt.done =>
        LET json == rt.json
            n    == Len(entities)
        IN  /\ \A i, j \in 1..Len(json) :
                  (/\ i < j
                   /\ IndexOf(loadingOrder, json[i].entityType) # -1
                   /\ IndexOf(loadingOrder, json[j].entityType) # -1)
                  => IndexOf(loadingOrder, json[i].entityType)
                        >= IndexOf(loadingOrder, json[j].entityType)
            /\ Len(json) = n
            /\ \E p \in [1..n -> 1..n] :
                  /\ \A i, j \in 1..n : i # j => p[i] # p[j]
                  /\ \A i \in 1..n : json[i] = ToJSON(heap, entities[p[i]])

\* A snapshot of a level whose set holds a Player before an Entity.
C15_Witness ==
    /\ rt.done
    /\ Len(entities) = 2
    /\ heap[entities[1]].type = "Player" /\ heap[entities[2]].type = "Entity"
    /\ rt.json[1].entityType = "Entity" /\ rt.json[2].entityType = "Player"

-----------------------------------------------------------------------------
(* Claims about findPath *)

PathDone == path.pc = "done"

SameCell == path.startNode.pos = path.endNode.pos

\* The length of a shortest 8-directional route between two cells of a level
Chebyshev(a, b) ==
    LET dx == Abs(a.x - b.x) \div 2
        dz == Abs(a.z - b.z) \div 2
    IN  IF dx > dz THEN dx ELSE dz

RouteClear ==
    \A i \in 1..Len(path.route) : ~Intersects(path.obstacles, path.route[i])

\* C3: findPath never raises: it returns a (possibly empty) route.
C3_NeverRaises == PathDone => path.err = NoError

\* C4: with no obstacles, for a start and a goal in different cells of one Y
\* level, findPath returns a route without the start cell that ends in the
\* goal cell and is no longer than a shortest 8-directional route.
C4_UnobstructedRoute ==
    (PathDone /\ path.obstacles = {} /\ ~SameCell
        /\ path.startNode.pos.y = path.endNode.pos.y)
    => /\ path.err = NoError
       /\ Len(path.route) > 0
       /\ path.route[Len(path.route)] = path.endNode.pos
       /\ \A i \in 1..Len(path.route) : path.route[i] # path.startNode.pos
       /\ Len(path.route) <= Chebyshev(path.startNode.pos, path.endNode.pos)

\* C5: findPath returns an empty route or a route whose points all lie
\* farther than radius + 1 from every obstacle.
C5_RouteAvoidsObstacles ==
    PathDone => (path.err = NoError /\ (path.route = <<>> \/ RouteClear))

ClosedCells(p) == {p.closed[i].pos : i \in 1..Len(p.closed)}

\* C6: every findPath call terminates, after at most MaxNodes expansions, each
\* of which moved one new cell into the closed map.
C6_Terminates ==
    /\ [](path.pc # "idle" =>
            /\ path.steps = Cardinality(ClosedCells(path))
            /\ path.steps = Len(path.closed)
            /\ path.steps <= MaxNodes)
    /\ ((path.pc = "loop") ~> (path.pc = "done"))

\* C23: for every start and goal that round to the same cell, and every
\* obstacle set, findPath returns an empty sequence, without an expansion.
C23_SameCellEmpty ==
    PathDone /\ SameCell =>
        path.err = NoError /\ path.route = <<>> /\ path.steps = 0

\* A finished call whose start and goal share a cell that an obstacle blocks
C23_Witness ==
    /\ PathDone /\ SameCell
    /\ Intersects(path.obstacles, path.startNode.pos)
    /\ path.startNode.pos # Zero

\* C25: in every expansion step the candidates are exactly the eight cells
\* around the expanded node's cell: each differs from it by an offset with x
\* and z in {-1, 0, 1}, not both 0, and every such cell is a candidate.
C25_NeighbourExpansion ==
    (path.pc # "idle" /\ path.steps > 0) =>
        {path.cands[i] : i \in 1..Len(path.cands)}
            = {VAdd(path.from, Scale2(Vec(x, 0, z))) :
                 <<x, z>> \in ({-1, 0, 1} \X {-1, 0, 1}) \ {<<0, 0>>}}

\* C26: in every state of a findPath call, no node other than the start node
\* is in the open or the closed map if its cell lies within radius + 1 of
\* the absolute position of some obstacle.
C26_BlockedCellsStayOut ==
    path.pc # "idle" =>
        /\ \A i \in 1..Len(path.open) :
              path.open[i].pos # path.startNode.pos
                  => ~Intersects(path.obstacles, path.open[i].pos)
        /\ \A i \in 1..Len(path.closed) :
              path.closed[i].pos # path.startNode.pos
                  => ~Intersects(path.obstacles, path.closed[i].pos)

\* An expansion some of whose candidates were blocked and some not
C26_Witness ==
    /\ path.pc # "idle" /\ path.steps > 1
    /\ \E i \in 1..Len(path.cands) : Intersects(path.obstacles, path.cands[i])
    /\ \E i \in 1..Len(path.cands) :
          /\ ~Intersects(path.obstacles, path.cands[i])
          /\ MapHas(path.open, path.cands[i])
    /\ Len(path.closed) > 1

\* A call that ran several expansions and stopped at the size cap.
C6_Witness ==
    /\ PathDone
    /\ path.steps > 1
    /\ Len(path.open) >= MaxNodes

-----------------------------------------------------------------------------
(* Claims about update and moveTo *)

\* C9: after update() on an entity whose rotation.y is beyond pi in magnitude
\* (at most 3 pi), rotation.y lies in (-pi, pi] and differs from the old value
\* by a multiple of 2 pi.
C9_RotationWrap ==
    (/\ mv.op = "update"
     /\ mv.before.type = "Entity"
     /\ Abs(mv.before.rotation.y) > PiUnits
     /\ Abs(mv.before.rotation.y) <= 3 * PiUnits)
    => /\ mv.after.rotation.y > -PiUnits
       /\ mv.after.rotation.y <= PiUnits
       /\ (mv.after.rotation.y - mv.before.rotation.y) % (2 * PiUnits) = 0

C11_NoRouteNoEffect ==
    (mv.op = "moveTo" /\ mv.err = NoError /\ mv.route = <<>>)
    => /\ mv.after = mv.before
       /\ mv.others
       /\ mv.emitted = <<>>
       /\ mv.setAfter = mv.set

\* A moveTo of a displaced, turned, moving entity to its own cell.
C11_Witness ==
    /\ mv.op = "moveTo" /\ mv.err = NoError /\ mv.route = <<>>
    /\ roundVector(mv.start) = roundVector(mv.goal)
    /\ mv.before.position # Zero /\ mv.before.rotation # Zero
    /\ mv.before.velocity # Zero
    /\ mv.after = mv.before

-----------------------------------------------------------------------------
(* Claims about Level.update() *)

\* The positions in the log at which entity r was updated
UpdatesOf(r) == {i \in 1..Len(tick.log) : tick.log[i].on = r}

\* C16: in every Level.update() call the level's update notification comes
\* before every entity update; every entity that is in the set when the call
\* starts and is not removed during it is updated exactly once, in the
\* iteration order of the set; and the call, once started, ends.
C16_Tick ==
    /\ [](tick.pc # "idle" =>
            /\ tick.log[1].ev = "level.update"
            /\ \A i \in 2..Len(tick.log) : tick.log[i].ev = "entity.update"
            /\ \A r \in 1..Len(heap) : Cardinality(UpdatesOf(r)) <= 1)
    /\ [](tick.pc = "done" =>
            /\ \A i \in 1..Len(tick.start) :
                  tick.start[i] \notin tick.removed
                      => Cardinality(UpdatesOf(tick.start[i])) = 1
            /\ \A i, j \in 1..Len(tick.start) :
                  (/\ i < j
                   /\ tick.start[i] \notin tick.removed
                   /\ tick.start[j] \notin tick.removed)
                  => \A a \in UpdatesOf(tick.start[i]), b \in UpdatesOf(tick.start[j]) : a < b)
    /\ ((tick.pc = "running") ~> (tick.pc = "done"))

\* A finished tick over two entities, during which one entity was removed
\* before its turn and another was constructed.
C16_Witness ==
    /\ tick.pc = "done"
    /\ Len(tick.start) = 2
    /\ tick.removed # {}
    /\ Len(tick.log) = 3
    /\ \E i \in 2..3 : tick.log[i].on \notin {tick.start[1], tick.start[2]}

-----------------------------------------------------------------------------
(* Claims about the created notification *)

InSeq(q, x) == \E i \in 1..Len(q) : q[i] = x

Count(q, x) == Cardinality({i \in 1..Len(q) : q[i] = x})

\* C17: a constructed entity is in level.entities at once; its created
\* notification is emitted exactly once, not in the run that constructed it
\* but by a timer after it, so a listener attached in the constructing run
\* observes it.
C17_DeferredCreated ==
    /\ [](\A r \in 1..Len(heap) :
            /\ InL(r)
            /\ Count(sched.created, r) + Count(sched.timers, r) = 1
            /\ (sched.running /\ r \in sched.made) => ~InSeq(sched.created, r)
            /\ (r \in sched.early /\ InSeq(sched.created, r)) => Count(sched.seen, r) = 1)
    /\ \A r \in 1..(MaxEnts + 1) :
          (r <= Len(heap) /\ InSeq(sched.timers, r)) ~> InSeq(sched.created, r)

\* An entity whose listener, attached in the constructing run, has seen the
\* notification, and another whose listener came too late.
C17_Witness ==
    \E r, q \in 1..Len(heap) :
        /\ r \in sched.early /\ InSeq(sched.seen, r)
        /\ q \in sched.listeners /\ InSeq(sched.created, q) /\ ~InSeq(sched.seen, q)

-----------------------------------------------------------------------------
(* Claims about execCommandString *)

IsPrefix(p, q) == Len(p) <= Len(q) /\ p = [i \in 1..Len(p) |-> q[i]]

\* The positions of the commands whose name is a prefix of the input
Matches == {i \in 1..Len(cmd.commands) : IsPrefix(cmd.commands[i].name, cmd.string)}

\* The matched command: the first of them
Matched == cmd.commands[CHOOSE i \in Matches : \A j \in Matches : i <= j]

\* C18: when the matched command requires more than the executor's level (no
\* level counts as 0) and the override is not set, the call returns the
\* permission-denied message and invokes no handler; with the override set
\* the matched command's handler is invoked whatever the executor's level.
C18_Permission ==
    (cmd.done /\ Matches # {})
    => /\ (Matched.permissionLevel > (IF cmd.level = NoLevel THEN 0 ELSE cmd.level)
            /\ ~cmd.ignoreOp)
          => (cmd.result = PermissionDenied /\ cmd.invoked = <<>>)
       /\ (cmd.ignoreOp /\ Matched.hasExec)
          => (Len(cmd.invoked) = 1 /\ cmd.invoked[1].name = Matched.name)

\* A denied call by an executor without a level, with two commands matching.
C18_Witness ==
    /\ cmd.done /\ Cardinality(Matches) = 2
    /\ cmd.level = NoLevel /\ ~cmd.ignoreOp
    /\ Matched.permissionLevel = 2
    /\ cmd.result = PermissionDenied /\ cmd.invoked = <<>>

\* C19: when no registered name is a prefix of the input the call returns
\* the does-not-exist message and invokes no handler; a permission or lookup
\* failure is a returned string, never a raised error.
C19_FailuresAreValues ==
    cmd.done =>
        /\ Matches = {} => (cmd.result = DoesNotExist /\ cmd.invoked = <<>>)
        /\ cmd.err = NoError
        /\ cmd.invoked = <<>> => cmd.result \in {DoesNotExist, PermissionDenied, NotImplemented}

\* A call that matches none of two registered commands.
C19_Witness ==
    /\ cmd.done /\ Len(cmd.commands) = 2 /\ Matches = {}
    /\ Len(cmd.string) = MaxLen
    /\ cmd.result = DoesNotExist

-----------------------------------------------------------------------------
(* Claims about filterEntities *)

\* C20: filterEntities raises an invalid-selector error for every selector
\* that is not '*' and does not start with '@', '#' or '.', whatever the
\* entity set holds.
C20_InvalidSelector ==
    (/\ sel.done
     /\ sel.selector # <<"*">>
     /\ Len(sel.selector) > 0
     /\ sel.selector[1] \notin {"@", "#", "."})
    => sel.err = "Error"

SeqSet(q) == {q[i] : i \in 1..Len(q)}

\* Does some type name of the chain of r contain the text, case aside
TypeNameContains(h, r, text) ==
    \E i \in 1..Len(entityTypes(h[r].type)) :
        LET name == Text(entityTypes(h[r].type)[i])
        IN  \E k \in 0..(Len(name) - Len(text)) :
                \A j \in 1..Len(text) : LowerChar(name[k + j]) = LowerChar(text[j])

\* C21: for the selector '*' and for every selector that starts with '@',
\* '#' or '.', filterEntities returns, without an error, a subset of the
\* given entities: all of them for '*', exactly those whose name is the text
\* after '@', exactly those whose id is the text after '#', exactly those
\* with a type name in their type chain that contains the text after '.',
\* compared case-insensitively.
C21_SelectorMatching ==
    (sel.done /\ Len(sel.selector) > 0 /\ sel.selector[1] \in {"*", "@", "#", "."}
        /\ (sel.selector[1] = "*" => sel.selector = <<"*">>))
    => LET lead == sel.selector[1]
           text == Slice(sel.selector, 1)
           all  == SeqSet(sel.over)
           got  == SeqSet(sel.selected)
       IN  /\ sel.err = NoError
           /\ got \subseteq all
           /\ Len(sel.selected) = Cardinality(got)
           /\ lead = "*" => got = all
           /\ lead = "@" => got = {r \in all : Text(sel.heap[r].name) = text}
           /\ lead = "#" => got = {r \in all : Text(sel.heap[r].id) = text}
           /\ lead = "." => got = {r \in all : TypeNameContains(sel.heap, r, text)}

\* '.ent' has selected a Player and not everything was asked for by name
C21_Witness ==
    /\ sel.done
    /\ sel.selector = <<".", "e", "n", "t">>
    /\ \E r \in SeqSet(sel.selected) : sel.heap[r].type = "Player"
    /\ Len(sel.over) = 2

-----------------------------------------------------------------------------
(* Claims about the absolute transform *)

\* The entity k steps up the parent chain of r, or NoRef beyond its end
ParentAt(h, r) ==
    LET up[k \in 0..Len(h)] ==
            IF k = 0 THEN r
            ELSE IF up[k - 1] = NoRef THEN NoRef ELSE h[up[k - 1]].parent
    IN  up

\* The parent chain of r ends
ChainEnds(h, r) == ParentAt(h, r)[Len(h)] = NoRef

\* The sum of a field over r and the ancestors r has within k steps
RECURSIVE SumUp(_, _, _, _)
SumUp(h, r, field, k) ==
    LET at   == ParentAt(h, r)[k]
        here == IF at = NoRef THEN Zero ELSE h[at][field]
    IN  IF k = 0 THEN here ELSE VAdd(SumUp(h, r, field, k - 1), here)

ReadIsSum ==
    /\ mv.position = [err |-> NoError,
                      value |-> SumUp(heap, mv.ref, "position", Len(heap) - 1)]
    /\ mv.rotation = [err |-> NoError,
                      value |-> SumUp(heap, mv.ref, "rotation", Len(heap) - 1)]

\* C22: for every entity, absolutePosition (absoluteRotation) is the sum of
\* the position (rotation) of the entity and of all its ancestors along the
\* parent chain.
C22_AbsoluteTransform == mv.op = "absolute" => ReadIsSum

\* C22, amended: for every entity whose parent chain ends, absolutePosition
\* (absoluteRotation) is the sum of the position (rotation) of the entity and
\* of all its ancestors; with no parent it is the entity's own position
\* (rotation).
C22_AbsoluteTransformOfEndingChain ==
    mv.op = "absolute" /\ ChainEnds(heap, mv.ref) =>
        /\ ReadIsSum
        /\ heap[mv.ref].parent = NoRef =>
              /\ mv.position.value = heap[mv.ref].position
              /\ mv.rotation.value = heap[mv.ref].rotation

\* A read on C of a chain A, B, C, each with a position of its own
C22_Witness ==
    /\ mv.op = "absolute"
    /\ LET c == mv.ref
           b == heap[c].parent
       IN  /\ b # NoRef /\ b # c
           /\ heap[b].parent \notin {NoRef, b, c}
           /\ heap[heap[b].parent].parent = NoRef
           /\ heap[heap[b].parent].position # Zero
           /\ heap[b].position # Zero /\ heap[c].position # Zero
           /\ heap[heap[b].parent].position # heap[b].position

-----------------------------------------------------------------------------
(* Claims about owners, parents and group membership *)

Players == {r \in 1..Len(heap) : heap[r].type = "Player"}

\* C24: after any sequence of operations (fromJSON with a record naming
\* another owner, an assignment to owner, an attempt to add the player to a
\* Group among them) a Player's owner is the player itself and its toJSON()
\* has the player's own id as owner, and no operation other than a fromJSON
\* of the player with a record that names a parent changes its parent.
C24_PlayerOwnsItself ==
    /\ [](\A r \in Players :
            /\ Owner(heap, r) = r
            /\ ToJSON(heap, r).owner = heap[r].id)
    /\ [][\A r \in Players :
            heap'[r].parent # heap[r].parent =>
                \E data \in DataInputs : Truthy(data.parent) /\ FromJSONOp(r, data)]_vars

\* A Player without a parent, next to a Group, after an attempt that raised
C24_Witness ==
    /\ err = "TypeError"
    /\ \E r \in Players : heap[r].parent = NoRef
    /\ \E g \in 1..Len(heap) : heap[g].type = "Group"

-----------------------------------------------------------------------------
(* Claims about the dispatch of execCommandString *)

\* The maximal runs of non-blank characters of a string, first to last
PieceStarts(q) == {i \in 1..Len(q) : q[i] # " " /\ (i = 1 \/ q[i - 1] = " ")}

PieceEnd(q, i) ==
    CHOOSE j \in i..Len(q) :
        /\ \A k \in i..j : q[k] # " "
        /\ j = Len(q) \/ q[j + 1] = " "

Pieces(q) ==
    [n \in 1..Cardinality(PieceStarts(q)) |->
        LET i == CHOOSE i \in PieceStarts(q) :
                    Cardinality({k \in PieceStarts(q) : k < i}) = n - 1
        IN  [k \in 1..(PieceEnd(q, i) - i + 1) |-> q[i + k - 1]]]

Remainder == [k \in 1..(Len(cmd.string) - Len(Matched.name)) |->
                cmd.string[Len(Matched.name) + k]]

Denied ==
    Matched.permissionLevel > (IF cmd.level = NoLevel THEN 0 ELSE cmd.level) /\ ~cmd.ignoreOp

\* C27: a call invokes at most one handler; it invokes one exactly when the
\* first command, in registration order, whose name is a prefix of the input
\* is not denied and has a handler, that command's handler it is, also when
\* later commands match; and the handler's arguments are the non-blank
\* pieces of the input after the name.
C27_SingleDispatch ==
    cmd.done =>
        /\ Len(cmd.invoked) <= 1
        /\ Len(cmd.invoked) = 1 <=> (Matches # {} /\ ~Denied /\ Matched.hasExec)
        /\ Len(cmd.invoked) = 1 =>
              /\ cmd.invoked[1].name = Matched.name
              /\ cmd.invoked[1].args = Pieces(Remainder)

\* The shorter, first registered of two matching commands was invoked with
\* two arguments around a dropped empty piece
C27_Witness ==
    /\ cmd.done /\ Cardinality(Matches) = 2
    /\ Len(cmd.invoked) = 1
    /\ \E i \in Matches : Len(cmd.commands[i].name) > Len(cmd.invoked[1].name)
    /\ Len(cmd.invoked[1].args) = 1
    /\ cmd.string[Len(cmd.string)] = " "

-----------------------------------------------------------------------------
(* Claims about failed reconstructions and references *)

\* C28: when Entity.FromJSON fails with a reference error because the
\* record's parent or owner names no entity of the level, the level's entity
\* set is the same as before the call.
C28_FailedFromJSONLeavesLevel ==
    [][\A type \in Types : \A data \in DataInputs :
          (FromJSONStaticOp(type, data) /\ err' = "ReferenceError")
              => entities' = entities]_vars

\* C29: after any sequence of constructions, Group.add, entity.fromJSON and
\* remove() calls, every entity of the level's entity set has its parent and
\* its owner, when set, in that set, and getEntityByID finds every parent and
\* owner id its toJSON() writes.
C29_ReferentialIntegrity ==
    \A i \in 1..Len(entities) :
        LET r   == entities[i]
            rec == ToJSON(heap, r)
        IN  /\ heap[r].parent # NoRef => InL(heap[r].parent)
            /\ Owner(heap, r) # NoRef => InL(Owner(heap, r))
            /\ rec.parent # Undefined => getEntityByID(L, rec.parent) # NoRef
            /\ rec.owner # Undefined => getEntityByID(L, rec.owner) # NoRef

\* C30: after any sequence of Group.add, Group.delete, Group.clear and
\* Entity.remove calls, an entity m is a member of a group g (g.has(m), and
\* m's id among g.toJSON().members) exactly when m.parent is g and m is in
\* the level's entity set.
C30_MembershipIsParenthood ==
    \A g \in 1..Len(heap) : \A m \in 1..Len(heap) :
        heap[g].type = "Group" =>
            /\ GroupHas(heap, g, m) <=> (heap[m].parent = g /\ InL(m))
            /\ GroupHas(heap, g, m) =>
                  \E i \in 1..Len(ToJSON(heap, g).members) :
                      ToJSON(heap, g).members[i] = heap[m].id

=============================================================================
